---- MODULE Spec2Model ----
(***************************************************************************)
(* Model of the CreatorStudio component (components/CreatorStudio.tsx) and *)
(* of the service functions it awaits (services/geminiService.ts).         *)
(*                                                                         *)
(* Every React state cell of the component is a variable.  An async        *)
(* handler is two steps: the part before its await (the dispatch, which    *)
(* captures the values of the render it was created in) and the part after *)
(* it (the resumption, which runs when the remote call resolves).          *)
(* Strings the code trims are sequences of characters.                     *)
(*                                                                         *)
(* pending holds the remote calls that have been dispatched and have not   *)
(* settled, calls counts the dispatched ones, now is the last reading of   *)
(* Date.now().                                                             *)
(*                                                                         *)
(* Spec follows the session: the text fields, the three operations and     *)
(* their overlap, with no file attached.  RequestSpec follows the          *)
(* attachments (headshot, logo, references) and the generation requests    *)
(* built from them, over every filled-in form.  The image size is passed   *)
(* through to the service untouched and is not state of this model.        *)
(***************************************************************************)
EXTENDS Integers, Sequences, FiniteSets, TLC

\* ---------------------------------------------------------------- bounds
MaxCalls == 3       \* service calls dispatched in one behaviour
MaxClock == 1       \* largest reading of Date.now()
MaxRefs == 2        \* reference images held at once

\* ------------------------------------------------------------ input sets
WS == " "
InputTexts == {<<>>, <<WS>>, <<"a", WS>>}
SuggestionLists == {<<>>, << <<"a", WS>> >>}
VideoFormat == {"long-form", "shorts", "facebook"}

\* ------------------------------------------------------------ JS values
NoData == ""                       \* null / undefined / "" : the falsy results
NoError == "null"                  \* error === null
NoImage == [present |-> FALSE]     \* generatedImage === null
NoFile == [present |-> FALSE]      \* headshot === null, logo === null

MsgOptimizeFailed == "Failed to optimize title. Please try again."
MsgPromptRequired == "Please enter a description or story for the image."
MsgNoImage == "No image generated."
MsgGenerationFailed == "Generation failed. Try a simpler prompt or fewer references."
MsgEditFailed == "Editing failed."
MsgProcessFailed == "Failed to process image."

IsSpace(c) == c = WS

RECURSIVE TrimStart(_)
TrimStart(s) == IF s # <<>> /\ IsSpace(Head(s)) THEN TrimStart(Tail(s)) ELSE s

RECURSIVE TrimEnd(_)
TrimEnd(s) == IF s # <<>> /\ IsSpace(s[Len(s)]) THEN TrimEnd(SubSeq(s, 1, Len(s) - 1)) ELSE s

\* String.prototype.trim as the handlers use it
trim(s) == TrimEnd(TrimStart(s))

\* !s for a string s
Falsy(s) == s = <<>>

Digit(d) == CASE d = 0 -> "0" [] d = 1 -> "1" [] d = 2 -> "2" [] d = 3 -> "3" [] d = 4 -> "4"
              [] d = 5 -> "5" [] d = 6 -> "6" [] d = 7 -> "7" [] d = 8 -> "8" [] d = 9 -> "9"

RECURSIVE toString(_)
\* Number.prototype.toString of a non-negative integer: its decimal digits
toString(n) == IF n < 10 THEN <<Digit(n)>> ELSE Append(toString(n \div 10), Digit(n % 10))

\* ----------------------------------------------------------------- state
VARIABLES title, optimizedTitles, prompt, videoFormat, generatedImage, editPrompt,
          loadingState, error, pending, calls, now,
          headshot, logo, referenceImages, brandColors

\* the cells that only feed the request of generateThumbnail
assets == <<headshot, logo, referenceImages, brandColors>>

vars == <<title, optimizedTitles, prompt, videoFormat, generatedImage, editPrompt,
          loadingState, error, pending, calls, now, assets>>

Init ==
    /\ title = <<>>
    /\ optimizedTitles = <<>>
    /\ prompt = <<>>
    /\ videoFormat = "long-form"
    /\ generatedImage = NoImage
    /\ editPrompt = <<>>
    /\ loadingState = "idle"
    /\ error = NoError
    /\ pending = {}
    /\ calls = 0
    /\ now = 0
    /\ headshot = NoFile
    /\ logo = NoFile
    /\ referenceImages = <<>>
    /\ brandColors = <<>>

isFacebook == videoFormat = "facebook"

\* the readings Date.now() can give when the last reading was t: the clock never
\* runs backwards.  now is the last reading taken.
DateNow(t) == t..MaxClock

\* ------------------------------------------------------- the input fields
\* onChange fires when the value of a field changes
SetTitle ==
    \E t \in InputTexts :
        /\ t # title
        /\ title' = t
        /\ UNCHANGED <<optimizedTitles, prompt, videoFormat, generatedImage, editPrompt,
                       loadingState, error, pending, calls, now, assets>>

ClickSuggestion ==
    /\ ~isFacebook
    /\ \E i \in 1..Len(optimizedTitles) : title' = optimizedTitles[i]
    /\ UNCHANGED <<optimizedTitles, prompt, videoFormat, generatedImage, editPrompt,
                   loadingState, error, pending, calls, now, assets>>

SetPrompt ==
    \E p \in InputTexts :
        /\ p # prompt
        /\ prompt' = p
        /\ UNCHANGED <<title, optimizedTitles, videoFormat, generatedImage, editPrompt,
                       loadingState, error, pending, calls, now, assets>>

SetVideoFormat ==
    \E f \in VideoFormat :
        /\ f # videoFormat
        /\ videoFormat' = f
        /\ UNCHANGED <<title, optimizedTitles, prompt, generatedImage, editPrompt,
                       loadingState, error, pending, calls, now, assets>>

\* the edit bar is rendered only while there is a generated image
SetEditPrompt ==
    /\ generatedImage # NoImage
    /\ \E e \in InputTexts : e # editPrompt /\ editPrompt' = e
    /\ UNCHANGED <<title, optimizedTitles, prompt, videoFormat, generatedImage,
                   loadingState, error, pending, calls, now, assets>>

\* ------------------------------------------------- services/geminiService
\* what ai.models.generateContent can do for a text request: reject, or answer
\* with no text, with text that is not JSON, with JSON lacking "titles", or
\* with JSON carrying a list of titles
TextResponses ==
    {[kind |-> "reject", titles |-> <<>>], [kind |-> "notext", titles |-> <<>>],
     [kind |-> "badjson", titles |-> <<>>], [kind |-> "notitles", titles |-> <<>>]}
    \cup {[kind |-> "titles", titles |-> l] : l \in SuggestionLists}

TextPart == [hasInline |-> FALSE, data |-> NoData]
InlinePart(d) == [hasInline |-> TRUE, data |-> d]

\* what ai.models.generateContent can do for an image request: reject, or
\* answer with the parts of the first candidate (none when there is no candidate)
ImageResponses ==
    {[kind |-> "reject", parts |-> <<>>]}
    \cup {[kind |-> "parts", parts |-> p] :
            p \in {<<>>, <<TextPart>>, <<InlinePart("B1")>>, <<TextPart, InlinePart("B2")>>,
                   <<InlinePart("B2"), InlinePart("B1")>>, <<InlinePart(NoData), InlinePart("B1")>>}}

Returned(v) == [threw |-> FALSE, value |-> v]
Thrown == [threw |-> TRUE, value |-> NoData]

optimizeTitle(resp) ==
    CASE resp.kind = "reject" -> [threw |-> TRUE, value |-> <<>>]
      [] resp.kind = "notext" -> Returned(<<>>)
      [] resp.kind = "badjson" -> [threw |-> TRUE, value |-> <<>>]
      [] resp.kind = "notitles" -> Returned(<<>>)
      [] resp.kind = "titles" -> Returned(resp.titles)

RECURSIVE FirstInlineData(_)
\* for (const part of parts) if (part.inlineData) return part.inlineData.data;  return null
FirstInlineData(parts) ==
    IF parts = <<>> THEN NoData
    ELSE IF Head(parts).hasInline THEN Head(parts).data
    ELSE FirstInlineData(Tail(parts))

\* ------------------------- the request generateThumbnail builds before its await
\* A prompt is a sequence of tokens: a fragment of a template literal is one
\* token, an interpolated text gives its characters.
FbIntro == "Create a high-quality image for a Facebook post."
FbTitleOpen == " The headline or text overlay context is \""
FbTitleClose == "\"."
FbStory == " \n\nStory/Context: "
FbFormat == " \n\nFormat: Square 1:1. Composition balanced for social feed."
FbStyle == " \n\nStyle: Natural, authentic, lifestyle photography or clean editorial graphic. Less aggressive than a YouTube thumbnail. Inviting, relatable, and story-driven."
YtIntro == "Create a high-quality YouTube "
YtShorts == "Shorts"
YtThumbnail == " thumbnail."
YtTitleOpen == " The video title is \""
YtTitleClose == "\". Include this text or related engaging typography in the thumbnail."
YtDescription == " \n\nVisual Description: "
ShortsSafeZone == " \n\nFormat: Vertical 9:16. Composition must be centered and optimized for mobile full-screen viewing. Keep key visual elements within the safe zone (avoiding top/bottom UI areas)."
ShortsBoldText == " Bold, readable text."
LongFormFormat == " \n\nFormat: Horizontal 16:9. Cinematic composition, rule of thirds."
YtStyle == " \n\nStyle: High contrast, vibrant colors, expressive facial expressions (if people are present), clear focal point. Professional YouTuber style."
PaletteOpen == " \n\nColor Palette: Use these specific brand colors: "
PaletteClose == ". Ensure they are dominant or used as accents to maintain brand identity."

\* a format block that leaves the text mandate out
FormatInstruction_NoBoldText(f) ==
    IF f = "shorts" THEN <<ShortsSafeZone>> ELSE <<LongFormFormat>>

\* if (isShorts) textPrompt += ` \n\nFormat: Vertical 9:16. ...` else textPrompt += ` \n\nFormat: Horizontal 16:9. ...`
FormatInstruction(f) ==
    IF f = "shorts" THEN <<ShortsSafeZone, ShortsBoldText>> ELSE <<LongFormFormat>>

\* let textPrompt = ""; ... : the text generateThumbnail builds from its arguments
textPrompt(p, t, f, bc) ==
    (IF f = "facebook"
     THEN <<FbIntro>>
          \o (IF ~Falsy(t) THEN <<FbTitleOpen>> \o t \o <<FbTitleClose>> ELSE <<>>)
          \o <<FbStory>> \o p
          \o <<FbFormat>>
          \o <<FbStyle>>
     ELSE <<YtIntro>> \o (IF f = "shorts" THEN <<YtShorts>> ELSE <<>>) \o <<YtThumbnail>>
          \o (IF ~Falsy(t) THEN <<YtTitleOpen>> \o t \o <<YtTitleClose>> ELSE <<>>)
          \o <<YtDescription>> \o p
          \o FormatInstruction(f)
          \o <<YtStyle>>)
    \o (IF ~Falsy(bc) THEN <<PaletteOpen>> \o bc \o <<PaletteClose>> ELSE <<>>)

\* the parts of a request: { text } and { inlineData: { mimeType: 'image/png', data } }
TextOf(t) == [inlineData |-> FALSE, text |-> t, data |-> NoData]
ImageOf(d) == [inlineData |-> TRUE, text |-> <<>>, data |-> d]

SubjectCaption(f) ==
    <<"Use the person in this image as the main subject in the ",
      IF f = "facebook" THEN "image" ELSE "thumbnail",
      ". Integrate them naturally matching the lighting and style.">>

LogoCaption ==
    <<"Integrate this logo into the image. Place it clearly (e.g. corner or branding area) without obstructing the main subject.">>

ReferenceOpen == "Reference style/composition from image #"

\* a caption numbered with the index of forEach as it is
ReferenceCaption_ZeroBased(idx) == <<ReferenceOpen>> \o toString(idx) \o <<".">>

\* `Reference style/composition from image #${idx + 1}.`
ReferenceCaption(idx) == <<ReferenceOpen>> \o toString(idx + 1) \o <<".">>

RECURSIVE ReferenceParts(_, _)
\* referenceImages.forEach((ref, idx) => { parts.push(...); parts.push(...) }), from idx on
ReferenceParts(refs, idx) ==
    IF idx >= Len(refs) THEN <<>>
    ELSE <<ImageOf(refs[idx + 1]), TextOf(ReferenceCaption(idx))>> \o ReferenceParts(refs, idx + 1)

\* what follows the text in parts: headshot, logo and references, each with its caption
Attachments(f, hs, refs, lg) ==
    (IF hs # NoData THEN <<ImageOf(hs), TextOf(SubjectCaption(f))>> ELSE <<>>)
    \o (IF lg # NoData THEN <<ImageOf(lg), TextOf(LogoCaption)>> ELSE <<>>)
    \o ReferenceParts(refs, 0)

\* const parts = [{ text: textPrompt }]; ... : the contents of the request
RequestParts(p, t, f, hs, refs, lg, bc) ==
    <<TextOf(textPrompt(p, t, f, bc))>> \o Attachments(f, hs, refs, lg)

generateThumbnail(resp) ==
    IF resp.kind = "reject" THEN Thrown ELSE Returned(FirstInlineData(resp.parts))

editThumbnail(resp) ==
    IF resp.kind = "reject" THEN Thrown ELSE Returned(FirstInlineData(resp.parts))

Outcome(r) == IF r.threw THEN "throw" ELSE IF r.value = NoData THEN "null" ELSE "value"

\* the call the handler awaits, numbered in dispatch order
Call(fields) == [n |-> calls + 1] @@ fields

\* setError(null), the second statement of every handler that passed its checks
ClearedError_Stale == error

ClearedError == NoError

\* -------------------------------------------------------- title optimizing
OptimizeDisabled == loadingState # "idle" \/ Falsy(title)

\* handleTitleOptimize up to its await
handleTitleOptimize ==
    IF Falsy(trim(title))
    THEN UNCHANGED vars
    ELSE /\ calls < MaxCalls
         /\ loadingState' = "optimizing_title"
         /\ error' = ClearedError
         /\ pending' = pending \cup {Call([op |-> "optimize", title |-> title])}
         /\ calls' = calls + 1
         /\ UNCHANGED <<title, optimizedTitles, prompt, videoFormat, generatedImage, editPrompt, now, assets>>

\* the Optimize Title button, rendered unless the format is facebook; a disabled
\* button dispatches no click
ClickOptimize ==
    /\ ~isFacebook
    /\ ~OptimizeDisabled
    /\ handleTitleOptimize

\* a handler that drops the old suggestions when the call fails
OptimizeTitles_ClearOnFail(r) == IF r.threw THEN <<>> ELSE r.value

\* try { setOptimizedTitles(await optimizeTitle(title)) }
OptimizeTitles(r) == IF r.threw THEN optimizedTitles ELSE r.value

\* catch { setError(...) }
OptimizeError(r) == IF r.threw THEN MsgOptimizeFailed ELSE error

\* finally { setLoadingState('idle') }
OptimizeFinally(r) == "idle"

\* handleTitleOptimize from its await on, for the call c
OptimizeResume(c, r) ==
    /\ c.op = "optimize"
    /\ optimizedTitles' = OptimizeTitles(r)
    /\ error' = OptimizeError(r)
    /\ loadingState' = OptimizeFinally(r)
    /\ pending' = pending \ {c}
    /\ UNCHANGED <<title, prompt, videoFormat, generatedImage, editPrompt, calls, now, assets>>

OptimizeResolve ==
    \E c \in pending : \E resp \in TextResponses : OptimizeResume(c, optimizeTitle(resp))

\* --------------------------------------------------------------- generating
\* a gate that forgets the loading flag
GenerateDisabled_PromptOnly == Falsy(prompt)

GenerateDisabled == loadingState # "idle" \/ Falsy(prompt)

\* a check that forgets to trim
PromptMissing_NoTrim == Falsy(prompt)

\* if (!prompt.trim())
PromptMissing == Falsy(trim(prompt))

\* a map that loses the first reference
refData_SkipFirst == [i \in 1..(Len(referenceImages) - 1) |-> referenceImages[i + 1].data]

\* const refData = referenceImages.map(r => r.data)
refData == [i \in 1..Len(referenceImages) |-> referenceImages[i].data]

\* headshot?.data, logo?.data
OptionalData(file) == IF file = NoFile THEN NoData ELSE file.data

\* the call generateThumbnail(prompt, title, imageSize, videoFormat, headshot?.data,
\* refData, logo?.data, brandColors) as it is followed while in flight: the prompt
\* and format the handler closed over, the image arguments, and the attachments
\* the function puts in the request before it awaits the model
GenerateCall ==
    [op |-> "generate", prompt |-> prompt, format |-> videoFormat,
     headshot |-> OptionalData(headshot), refData |-> refData, logo |-> OptionalData(logo),
     attachments |-> Attachments(videoFormat, OptionalData(headshot), refData, OptionalData(logo))]

\* handleGenerate up to its await
handleGenerate ==
    IF PromptMissing
    THEN /\ error' = MsgPromptRequired
         /\ UNCHANGED <<title, optimizedTitles, prompt, videoFormat, generatedImage, editPrompt,
                        loadingState, pending, calls, now, assets>>
    ELSE /\ calls < MaxCalls
         /\ loadingState' = "generating_image"
         /\ error' = ClearedError
         /\ pending' = pending \cup {Call(GenerateCall)}
         /\ calls' = calls + 1
         /\ UNCHANGED <<title, optimizedTitles, prompt, videoFormat, generatedImage, editPrompt, now, assets>>

\* the Generate button
ClickGenerate ==
    /\ ~GenerateDisabled
    /\ handleGenerate

\* an object literal that reads the state of the latest render
NewImage_LatestRender(c, data, t1, t2) ==
    [id |-> toString(t1), data |-> data, mimeType |-> "image/png", prompt |-> prompt,
     timestamp |-> t2, format |-> videoFormat]

\* the object literal of setGeneratedImage: two readings of Date.now(), id first;
\* prompt and videoFormat are the values the handler closed over, kept in c
NewImage(c, data, t1, t2) ==
    [id |-> toString(t1), data |-> data, mimeType |-> "image/png", prompt |-> c.prompt,
     timestamp |-> t2, format |-> c.format]

\* a handler that clears the image when the call yields none
GenerateImage_DropOnNull(c, r, t1, t2) ==
    IF ~r.threw /\ r.value # NoData THEN NewImage(c, r.value, t1, t2) ELSE NoImage

\* if (resultBase64) setGeneratedImage({...})
GenerateImage(c, r, t1, t2) ==
    IF ~r.threw /\ r.value # NoData THEN NewImage(c, r.value, t1, t2) ELSE generatedImage

\* a handler that reports a missing image as a failed call
GenerateError_OneMessage(r) ==
    IF ~r.threw /\ r.value # NoData THEN error ELSE MsgGenerationFailed

\* else setError("No image generated.")  /  catch { setError("Generation failed. ...") }
GenerateError(r) ==
    IF r.threw THEN MsgGenerationFailed
    ELSE IF r.value # NoData THEN error
    ELSE MsgNoImage

\* a handler that resets the flag after the try block instead of in a finally
GenerateFinally_NotOnThrow(r) == IF r.threw THEN loadingState ELSE "idle"

\* finally { setLoadingState('idle') }
GenerateFinally(r) == "idle"

\* handleGenerate from its await on, for the call c
\* with the result r, and the readings t1, t2 of Date.now() if it takes them
GenerateResume(c, r, t1, t2) ==
    /\ c.op = "generate"
    /\ generatedImage' = GenerateImage(c, r, t1, t2)
    /\ now' = IF Outcome(r) = "value" THEN t2 ELSE now
    /\ error' = GenerateError(r)
    /\ loadingState' = GenerateFinally(r)
    /\ pending' = pending \ {c}
    /\ UNCHANGED <<title, optimizedTitles, prompt, videoFormat, editPrompt, calls, assets>>

GenerateResolve ==
    \E c \in pending : \E resp \in ImageResponses : \E t1 \in DateNow(now) : \E t2 \in DateNow(t1) :
        GenerateResume(c, generateThumbnail(resp), t1, t2)

\* ------------------------------------------------------------------ editing
ApplyDisabled == loadingState # "idle" \/ Falsy(editPrompt)

\* handleEdit up to its await
handleEdit ==
    IF generatedImage = NoImage \/ Falsy(trim(editPrompt))
    THEN UNCHANGED vars
    ELSE /\ calls < MaxCalls
         /\ loadingState' = "editing_image"
         /\ error' = ClearedError
         /\ pending' = pending \cup {Call([op |-> "edit", image |-> generatedImage.data,
                                           imageId |-> generatedImage.id, instruction |-> editPrompt])}
         /\ calls' = calls + 1
         /\ UNCHANGED <<title, optimizedTitles, prompt, videoFormat, generatedImage, editPrompt, now, assets>>

\* the Apply button of the edit bar
ClickApply ==
    /\ generatedImage # NoImage
    /\ ~ApplyDisabled
    /\ handleEdit

\* onKeyDown of the edit input: e.key === 'Enter' && handleEdit()
EnterEdit ==
    /\ generatedImage # NoImage
    /\ handleEdit

\* an update that rebuilds the image instead of spreading prev
EditImage_NewTimestamp(r, t) ==
    IF ~r.threw /\ r.value # NoData
    THEN IF generatedImage # NoImage
         THEN [generatedImage EXCEPT !.data = r.value, !.id = toString(t), !.timestamp = t]
         ELSE NoImage
    ELSE generatedImage

\* if (resultBase64) setGeneratedImage(prev => prev ? {...prev, data, id} : null)
EditImage(r, t) ==
    IF ~r.threw /\ r.value # NoData
    THEN IF generatedImage # NoImage
         THEN [generatedImage EXCEPT !.data = r.value, !.id = toString(t)]
         ELSE NoImage
    ELSE generatedImage

\* if (resultBase64) setEditPrompt('')
EditPromptAfter(r) == IF ~r.threw /\ r.value # NoData THEN <<>> ELSE editPrompt

\* catch { setError("Editing failed.") }
EditError(r) == IF r.threw THEN MsgEditFailed ELSE error

\* finally { setLoadingState('idle') }
EditFinally(r) == "idle"

\* handleEdit from its await on, for the call c
\* with the result r, and the reading t of Date.now() if it takes one
EditResume(c, r, t) ==
    /\ c.op = "edit"
    /\ generatedImage' = EditImage(r, t)
    /\ now' = IF Outcome(r) = "value" THEN t ELSE now
    /\ editPrompt' = EditPromptAfter(r)
    /\ error' = EditError(r)
    /\ loadingState' = EditFinally(r)
    /\ pending' = pending \ {c}
    /\ UNCHANGED <<title, optimizedTitles, prompt, videoFormat, calls, assets>>

EditResolve ==
    \E c \in pending : \E resp \in ImageResponses : \E t \in DateNow(now) :
        EditResume(c, editThumbnail(resp), t)

\* ------------------------------------------------------------- attachments
BrandTexts == {<<>>, <<"c">>}
UploadTypes == {"headshot", "reference", "logo"}

\* the files picked in each file input; data is what fileToBase64 gives for the file
FilesOf(type) ==
    CASE type = "headshot" -> {[name |-> "me.png", data |-> "H"]}
      [] type = "logo" -> {[name |-> "logo.png", data |-> "L"]}
      [] type = "reference" -> {[name |-> "r1.png", data |-> "R1"], [name |-> "r2.png", data |-> "R2"]}

\* handleFileUpload for a chosen file, at the resolution of fileToBase64 (ok) or
\* at its rejection (~ok); nothing of the component changes before that
handleFileUpload(type, file, ok) ==
    IF ok
    THEN /\ headshot' = IF type = "headshot" THEN file ELSE headshot
         /\ logo' = IF type = "logo" THEN file ELSE logo
         /\ referenceImages' = IF type = "reference" THEN Append(referenceImages, file)
                               ELSE referenceImages
         /\ UNCHANGED <<title, optimizedTitles, prompt, videoFormat, generatedImage, editPrompt,
                        loadingState, error, pending, calls, now, brandColors>>
    ELSE /\ error' = MsgProcessFailed
         /\ UNCHANGED <<title, optimizedTitles, prompt, videoFormat, generatedImage, editPrompt,
                        loadingState, pending, calls, now, assets>>

FileUpload ==
    \E type \in UploadTypes : \E file \in FilesOf(type) : \E ok \in BOOLEAN :
        /\ type = "reference" => Len(referenceImages) < MaxRefs
        /\ handleFileUpload(type, file, ok)

\* the remove button over the headshot: setHeadshot(null)
RemoveHeadshot ==
    /\ headshot # NoFile
    /\ headshot' = NoFile
    /\ UNCHANGED <<title, optimizedTitles, prompt, videoFormat, generatedImage, editPrompt,
                   loadingState, error, pending, calls, now, logo, referenceImages, brandColors>>

\* the remove button over the logo: setLogo(null)
RemoveLogo ==
    /\ logo # NoFile
    /\ logo' = NoFile
    /\ UNCHANGED <<title, optimizedTitles, prompt, videoFormat, generatedImage, editPrompt,
                   loadingState, error, pending, calls, now, headshot, referenceImages, brandColors>>

\* setReferenceImages(prev => prev.filter((_, i) => i !== index)), index from 0
removeReference(index) ==
    /\ referenceImages' = [i \in 1..(Len(referenceImages) - 1) |->
                              IF i <= index THEN referenceImages[i] ELSE referenceImages[i + 1]]
    /\ UNCHANGED <<title, optimizedTitles, prompt, videoFormat, generatedImage, editPrompt,
                   loadingState, error, pending, calls, now, headshot, logo, brandColors>>

RemoveReference == \E index \in 0..(Len(referenceImages) - 1) : removeReference(index)

\* the form as it stands when the attachments are chosen: any title, description,
\* format and brand colours
RequestInit ==
    /\ title \in InputTexts
    /\ optimizedTitles = <<>>
    /\ prompt \in InputTexts
    /\ videoFormat \in VideoFormat
    /\ generatedImage = NoImage
    /\ editPrompt = <<>>
    /\ loadingState = "idle"
    /\ error = NoError
    /\ pending = {}
    /\ calls = 0
    /\ now = 0
    /\ headshot = NoFile
    /\ logo = NoFile
    /\ referenceImages = <<>>
    /\ brandColors \in BrandTexts

RequestNext ==
    \/ FileUpload
    \/ RemoveHeadshot
    \/ RemoveLogo
    \/ RemoveReference
    \/ ClickGenerate
    \/ GenerateResolve

\* attachments and generation requests over a form that is filled in
RequestSpec == RequestInit /\ [][RequestNext]_vars

Next ==
    \/ SetTitle
    \/ ClickSuggestion
    \/ SetPrompt
    \/ SetVideoFormat
    \/ SetEditPrompt
    \/ ClickOptimize
    \/ OptimizeResolve
    \/ ClickGenerate
    \/ GenerateResolve
    \/ ClickApply
    \/ EnterEdit
    \/ EditResolve

Spec == Init /\ [][Next]_vars

\* the call numbered n resolves
Resolve(n) ==
    \E c \in pending :
        /\ c.n = n
        /\ \/ \E resp \in TextResponses : OptimizeResume(c, optimizeTitle(resp))
           \/ \E resp \in ImageResponses : \E t1 \in DateNow(now) : \E t2 \in DateNow(t1) :
                 GenerateResume(c, generateThumbnail(resp), t1, t2)
           \/ \E resp \in ImageResponses : \E t \in DateNow(now) :
                 EditResume(c, editThumbnail(resp), t)

\* every remote call eventually resolves (the premise of the claims on progress)
FairSpec == Spec /\ \A n \in 1..MaxCalls : WF_vars(Resolve(n))


\* ------------------------------------------------------------------ claims
InFlight(n) == \E c \in pending : c.n = n

\* what the awaited service functions can settle with
GenerateResults == {generateThumbnail(resp) : resp \in ImageResponses}
EditResults == {editThumbnail(resp) : resp \in ImageResponses}

\* a handler passed its checks and dispatched its call
Dispatch == calls' = calls + 1

\* C1: in every reachable state at most one service operation is outstanding.
C1_AtMostOneOutstanding == Cardinality(pending) <= 1

\* C2: every started operation eventually puts the workflow state back to idle,
\* whether its call returns a value, returns null or throws: once the call
\* numbered n is in flight, a state follows in which it has resolved and
\* loadingState is idle.
C2_EventuallyIdle ==
    \A n \in 1..MaxCalls : InFlight(n) ~> (~InFlight(n) /\ loadingState = "idle")

\* a generation has thrown, nothing is in flight and the flag is idle again
C2_Witness ==
    /\ error = MsgGenerationFailed
    /\ pending = {}
    /\ calls > 0
    /\ loadingState = "idle"

\* C3: while the workflow state is not idle no click reaches handleGenerate, so an
\* attempt to generate changes neither the state, the artifact nor the error
\* slot and dispatches no call.
C3_NoGenerateWhileBusy == loadingState # "idle" => ~ENABLED ClickGenerate

\* an operation is in flight and only the gate keeps a generation from starting
C3_Witness ==
    /\ loadingState # "idle"
    /\ ~PromptMissing
    /\ calls < MaxCalls
    /\ ~ENABLED ClickGenerate

\* C4: when the call of an edit returns null or throws, the artifact is unchanged,
\* the error slot is "Editing failed.", the edit input is not cleared and the
\* state is idle.
C4_EditFailureReported ==
    [][\A c \in pending \ pending' : \A r \in EditResults : \A t \in DateNow(now) :
          (Outcome(r) # "value" /\ EditResume(c, r, t)) =>
              /\ generatedImage' = generatedImage
              /\ error' = MsgEditFailed
              /\ editPrompt' = editPrompt
              /\ loadingState' = "idle"]_vars

\* C5 as stated: the step that starts an attempt leaves the error slot as it was.
C5_ErrorKeptOnStart == [][Dispatch => error' = error]_vars

\* C5 as amended: the step that starts an attempt (optimize, generate or edit)
\* sets the error slot to null, whatever an earlier attempt left in it; every
\* other change of the slot writes a message.
C5_ErrorClearedOnStart ==
    [][/\ Dispatch => error' = NoError
       /\ (~Dispatch /\ error' # error) => error' # NoError]_vars

\* an attempt has started, its call is in flight and the slot is null
C5_Witness ==
    /\ loadingState # "idle"
    /\ Cardinality(pending) = 1
    /\ error = NoError

C7_GeneratedFromDispatchedRequest ==
    [][\A c \in pending \ pending' : \A r \in GenerateResults : \A t1 \in DateNow(now) : \A t2 \in DateNow(t1) :
          (Outcome(r) = "value" /\ GenerateResume(c, r, t1, t2)) =>
              /\ generatedImage' = [id |-> toString(t1), data |-> r.value, mimeType |-> "image/png",
                                    prompt |-> c.prompt, timestamp |-> t2, format |-> c.format]
              /\ loadingState' = "idle"]_vars

\* an artifact is up whose prompt and format are no longer those of the fields
C7_Witness ==
    /\ generatedImage # NoImage
    /\ generatedImage.prompt # prompt
    /\ generatedImage.format # videoFormat
    /\ generatedImage.id = toString(generatedImage.timestamp)
    /\ loadingState = "idle"

\* C8: a generation that returns null sets the error slot to "No image
\* generated.", one that throws sets it to "Generation failed. ..."; both leave
\* the artifact as it was and the state idle.
C8_GenerationFailureReported ==
    [][\A c \in pending \ pending' : \A r \in GenerateResults : \A t1 \in DateNow(now) : \A t2 \in DateNow(t1) :
          (Outcome(r) # "value" /\ GenerateResume(c, r, t1, t2)) =>
              /\ Outcome(r) = "null" => error' = MsgNoImage
              /\ Outcome(r) = "throw" => error' = MsgGenerationFailed
              /\ generatedImage' = generatedImage
              /\ loadingState' = "idle"]_vars

\* a generation returned null over an artifact that is still there
C8_Witness ==
    /\ error = MsgNoImage
    /\ generatedImage # NoImage
    /\ loadingState = "idle"

\* C9: when the call of an edit returns bytes B, the bytes of the existing artifact
\* become B and its id the reading of the clock, its format, timestamp and
\* source prompt stay, and the edit input is cleared.
C9_EditRefreshesBytesAndId ==
    [][\A c \in pending \ pending' : \A r \in EditResults : \A t \in DateNow(now) :
          (Outcome(r) = "value" /\ EditResume(c, r, t)) =>
              /\ generatedImage # NoImage /\ generatedImage' # NoImage
              /\ generatedImage'.data = r.value
              /\ generatedImage'.id = toString(t)
              /\ generatedImage'.format = generatedImage.format
              /\ generatedImage'.timestamp = generatedImage.timestamp
              /\ generatedImage'.prompt = generatedImage.prompt
              /\ editPrompt' = <<>>]_vars

\* an edited artifact: its id was read after its timestamp, the input is empty
C9_Witness ==
    /\ generatedImage # NoImage
    /\ generatedImage.id # toString(generatedImage.timestamp)
    /\ generatedImage.timestamp = 0
    /\ editPrompt = <<>>

\* C10: an optimization is only ever dispatched with a title that does not trim
\* to nothing; when it succeeds the suggestion list becomes the list returned,
\* empty or not, and no error is set; when it fails the error slot is the
\* optimize-failed message and the list stays; both leave the state idle.
C10_TitleOptimization ==
    [][\A c \in pending \ pending' : \A resp \in TextResponses :
          (OptimizeResume(c, optimizeTitle(resp))) =>
              /\ ~Falsy(trim(c.title))
              /\ resp.kind = "titles" => optimizedTitles' = resp.titles
              /\ ~optimizeTitle(resp).threw =>
                    /\ optimizedTitles' = optimizeTitle(resp).value
                    /\ error' = error
              /\ optimizeTitle(resp).threw =>
                    /\ error' = MsgOptimizeFailed
                    /\ optimizedTitles' = optimizedTitles
              /\ loadingState' = "idle"]_vars

\* an optimization failed after one had succeeded: the suggestions are still there
C10_Witness ==
    /\ error = MsgOptimizeFailed
    /\ optimizedTitles # <<>>
    /\ loadingState = "idle"

\* the image data of a list of parts, in order
ImageData(parts) ==
    LET images == SelectSeq(parts, LAMBDA q : q.inlineData)
    IN  [i \in 1..Len(images) |-> images[i].data]

\* the image data the attachment cells hold, subject first, then logo, then references
HeldData ==
    (IF headshot = NoFile THEN <<>> ELSE <<headshot.data>>)
    \o (IF logo = NoFile THEN <<>> ELSE <<logo.data>>)
    \o [i \in 1..Len(referenceImages) |-> referenceImages[i].data]

\* C11: a generation request carries the images the attachment cells hold at the
\* step that dispatches it, and a step that adds or removes a reference, or sets
\* or removes the headshot or the logo, leaves every request in flight as it was.
C11_RequestIsSnapshot ==
    [][/\ \A c \in pending' \ pending :
             c.op = "generate" => ImageData(c.attachments) = HeldData
       /\ <<headshot, logo, referenceImages>>' # <<headshot, logo, referenceImages>>
             => pending' = pending]_vars

\* a request is in flight with a headshot and two references, all removed since
C11_Witness ==
    /\ headshot = NoFile
    /\ referenceImages = <<>>
    /\ \E c \in pending :
          /\ c.op = "generate"
          /\ c.headshot # NoData
          /\ Len(c.refData) = 2
          /\ Len(ImageData(c.attachments)) >= 3

\* C12: the attachments of a request are, in order, the subject image and its
\* caption if a subject is passed, the logo and its caption if a logo is passed,
\* then each reference followed by the caption numbered with its 1-based
\* position in the reference list; nothing else, and an absent subject or logo
\* does not shift the numbers.
C12_AttachmentOrder ==
    \A c \in pending :
        c.op = "generate" =>
            LET a == c.attachments
                h == IF c.headshot # NoData THEN 2 ELSE 0
                l == IF c.logo # NoData THEN 2 ELSE 0
                n == Len(c.refData)
            IN  /\ Len(a) = h + l + 2 * n
                /\ h = 2 => /\ a[1] = [inlineData |-> TRUE, text |-> <<>>, data |-> c.headshot]
                            /\ ~a[2].inlineData
                            /\ a[2].text = SubjectCaption(c.format)
                /\ l = 2 => /\ a[h + 1] = [inlineData |-> TRUE, text |-> <<>>, data |-> c.logo]
                            /\ ~a[h + 2].inlineData
                            /\ a[h + 2].text = LogoCaption
                /\ \A i \in 1..n :
                      /\ a[h + l + 2 * i - 1] = [inlineData |-> TRUE, text |-> <<>>, data |-> c.refData[i]]
                      /\ ~a[h + l + 2 * i].inlineData
                      /\ a[h + l + 2 * i].text = <<ReferenceOpen>> \o toString(i) \o <<".">>

\* a request in flight without subject, with a logo and two different references
C12_Witness ==
    \E c \in pending :
        /\ c.op = "generate"
        /\ c.headshot = NoData
        /\ c.logo # NoData
        /\ Len(c.refData) = 2
        /\ c.refData[1] # c.refData[2]

Contains(text, token) == \E i \in 1..Len(text) : text[i] = token

\* the text of the request the dispatched call c carries, built from the title and
\* the brand colours of the dispatching render
TextOfRequest(c) ==
    RequestParts(c.prompt, title, c.format, c.headshot, c.refData, c.logo, brandColors)[1].text

\* C13 as stated: the prompt of a vertical request holds the safe-zone instruction,
\* and holds the bold-readable-text mandate exactly when the title is not empty.
C13_BoldTextIffTitle ==
    [][\A c \in pending' \ pending :
          (c.op = "generate" /\ c.format = "shorts") =>
              /\ Contains(TextOfRequest(c), ShortsSafeZone)
              /\ Contains(TextOfRequest(c), ShortsBoldText) <=> ~Falsy(title)]_vars

\* C13 as amended: the prompt of a vertical request holds the safe-zone instruction
\* and the bold-readable-text mandate, whether the title is empty or not.
C13_BoldTextAlways ==
    [][\A c \in pending' \ pending :
          (c.op = "generate" /\ c.format = "shorts") =>
              /\ Contains(TextOfRequest(c), ShortsSafeZone)
              /\ Contains(TextOfRequest(c), ShortsBoldText)]_vars

\* a vertical request is in flight and the title is empty
C13_Witness ==
    /\ Falsy(title)
    /\ \E c \in pending : c.op = "generate" /\ c.format = "shorts"

\* C14: a generation or an edit that installs bytes gives the artifact an id other
\* than the id of the artifact it replaces or updates.
C14_FreshId ==
    [][\A c \in pending \ pending' :
          /\ \A r \in GenerateResults : \A t1 \in DateNow(now) : \A t2 \in DateNow(t1) :
                (Outcome(r) = "value" /\ generatedImage # NoImage /\ GenerateResume(c, r, t1, t2))
                    => generatedImage'.id # generatedImage.id
          /\ \A r \in EditResults : \A t \in DateNow(now) :
                (Outcome(r) = "value" /\ generatedImage # NoImage /\ EditResume(c, r, t))
                    => generatedImage'.id # generatedImage.id]_vars

\* the operation a value of the flag stands for
OpOf(flag) ==
    CASE flag = "optimizing_title" -> "optimize"
      [] flag = "generating_image" -> "generate"
      [] flag = "editing_image" -> "edit"
      [] OTHER -> "none"

FlagTracksOperation ==
    /\ loadingState = "idle" <=> pending = {}
    /\ \A c \in pending : c.op = OpOf(loadingState)

\* C15: the flag is idle exactly when no call is outstanding, a non-idle flag names
\* the operation that is outstanding, and the flag becomes idle only in the step
\* that resolves the operation it named.
C15_FlagTracksOperation ==
    [][/\ FlagTracksOperation'
       /\ (loadingState # "idle" /\ loadingState' = "idle")
             => \E c \in pending \ pending' : c.op = OpOf(loadingState)]_vars

\* C16: an artifact that exists is never removed; it changes only in the step that
\* resolves a generation, which puts a new artifact with the prompt and format of
\* that generation in its place, or in the step that resolves an edit, which
\* keeps its prompt, timestamp and format; every step that sets an error
\* message, and every other step, leaves it as it was.
C16_ArtifactKept ==
    [][generatedImage # NoImage =>
          /\ generatedImage' # NoImage
          /\ generatedImage' # generatedImage =>
                /\ error' = error
                /\ \E c \in pending \ pending' :
                      \/ /\ c.op = "generate"
                         /\ generatedImage'.prompt = c.prompt
                         /\ generatedImage'.format = c.format
                      \/ /\ c.op = "edit"
                         /\ generatedImage'.prompt = generatedImage.prompt
                         /\ generatedImage'.timestamp = generatedImage.timestamp
                         /\ generatedImage'.format = generatedImage.format]_vars

\* the artifact outlived a generation that returned no image, with nothing in flight
C16_Witness ==
    /\ generatedImage # NoImage
    /\ error = MsgNoImage
    /\ pending = {}
    /\ calls >= 2

\* C17: the artifact an edit installs its bytes into has the id of the artifact
\* whose bytes the edit sent at dispatch.
C17_EditedArtifactIsTheOneSent ==
    [][\A c \in pending \ pending' : \A r \in EditResults : \A t \in DateNow(now) :
          (Outcome(r) = "value" /\ EditResume(c, r, t)) =>
              /\ generatedImage # NoImage
              /\ generatedImage.id = c.imageId]_vars
====
